---- MODULE Spec2Model ----
(***************************************************************************)
(* The publish scheduler of server/scheduler.ts: the recurring timer, the  *)
(* isRunning single-flight guard and the cycle checkAndPublishDueArticles  *)
(* with its per-article pipeline ensureArticleOnAirtable; publishArticle.  *)
(* Every await of the cycle is one step; storage, settings, the Airtable   *)
(* API and the Instagram adapter answer nondeterministically.              *)
(***************************************************************************)
EXTENDS Integers, Sequences, FiniteSets

\* ------------------------------------------------------------------ bounds
NumArticles == 2
MaxTime == 1
NumInvocations == 2
MaxCycles == 2
MaxSkips == 1
MaxPending == 1

ArticleIds == 1..NumArticles
Invocations == 1..NumInvocations
Instants == 0..MaxTime

\* ------------------------------------------------------- article field values
\* A date field that is null, undefined or "" (falsy at scheduler.ts:11,17).
NoDate == -1
\* A date field that is truthy but for which new Date(x).getTime() is NaN.
BadDate == -2
\* parseScheduledDate's null result.
Unresolved == -3

DateValues == {NoDate, BadDate} \cup Instants

\* What getIntegrationSettingByKey can answer: null, {value: ""}, {value: "..."}.
SettingValues == {"missing", "empty", "set"}

VARIABLES
    articles,         \* storage: id -> the article row
    isRunning,        \* scheduler.ts:6
    intervalHandle,   \* scheduler.ts:7, 0 is null
    activeIntervals,  \* the interval timers of the runtime that are not cleared
    pendingTimeouts,  \* the setTimeout(…, 5000) callbacks that have not fired yet
    now,              \* the wall clock read by new Date()
    inv,              \* invocation -> the frame of a checkAndPublishDueArticles call
    mirror,           \* the Airtable table: id -> number of records created for the article
    posts,            \* id -> number of postArticleToInstagram calls received
    entries,          \* cycles that passed the isRunning guard
    completions,      \* cycles that ran the finally block
    skips,            \* invocations that returned at the guard
    failedPublish     \* history: the articles whose latest publish patch failed

vars == <<articles, isRunning, intervalHandle, activeIntervals, pendingTimeouts,
          now, inv, mirror, posts, entries, completions, skips, failedPublish>>

\* ------------------------------------------------------------ pure helpers
\* JavaScript truthiness of a date field (scheduler.ts:11 and :17).
Truthy(d) == d # NoDate

\* !isNaN(new Date(x).getTime()) (scheduler.ts:13 and :19).
ValidDate(d) == d \in Nat

\* parseScheduledDate with the two fields tried in the other order.
parsePublishedAtFirst(article) ==
    IF Truthy(article.publishedAt) /\ ValidDate(article.publishedAt)
    THEN article.publishedAt
    ELSE IF Truthy(article.Scheduled) /\ ValidDate(article.Scheduled)
         THEN article.Scheduled
         ELSE Unresolved

\* scheduler.ts:9-23
parseScheduledDate(article) ==
    IF Truthy(article.Scheduled) /\ ValidDate(article.Scheduled)
    THEN article.Scheduled
    ELSE IF Truthy(article.publishedAt) /\ ValidDate(article.publishedAt)
         THEN article.publishedAt
         ELSE Unresolved

\* The filter predicate with the comparison turned round.
IsDueFromNowOn(article, t) ==
    LET when == parseScheduledDate(article)
    IN  when # Unresolved /\ when >= t

\* The filter predicate of scheduler.ts:136-139.
IsDue(article, t) ==
    LET when == parseScheduledDate(article)
    IN  when # Unresolved /\ when <= t

\* storage.getArticlesByStatus: the rows with that status, in id order.
getArticlesByStatus(status) ==
    LET F[i \in 0..NumArticles] ==
            IF i = 0 THEN <<>>
            ELSE IF articles[i].status = status
                 THEN Append(F[i - 1], articles[i])
                 ELSE F[i - 1]
    IN  F[NumArticles]

\* candidates.filter(...) of scheduler.ts:136-139.
FilterDue(candidates, t) == SelectSeq(candidates, LAMBDA a : IsDue(a, t))

\* article.publishedAt || now (scheduler.ts:100).
PublishedAtOrNow(article, t) == IF Truthy(article.publishedAt) THEN article.publishedAt ELSE t

\* ------------------------------------------------------------------ frames
NoArticle == [id |-> 0, status |-> "none", Scheduled |-> NoDate, publishedAt |-> NoDate,
              externalId |-> 0, source |-> "none", finished |-> FALSE]

\* The calls a cycle issues, counted per due article.
CallOps == {"ensure", "create", "externalIdPatch", "publishPatch", "crossPost"}

\* How ensureArticleOnAirtable ended for the current article.
MirrorResults == {"present", "mirrorUnconfigured", "mirrorFailed", "mirrorNoId",
                  "mirrorThrew", "externalIdNull", "externalIdSet"}

\* How publishArticle went for a due article.
PublishResults == {"publishNull", "publishThrew", "published",
                   "crossPostOk", "crossPostFailed", "crossPostThrew"}

NoCalls == [op \in CallOps |-> <<>>]

\* The frame of one call of checkAndPublishDueArticles: its locals (drafts, due,
\* the loop index, article/ensured, the response, the snapshot of now, the
\* publishedAt of the patch) and the ledger of what it did: calls[op][j] and
\* results[j] for the j-th due article, mirrorResult for the current one, and
\* unset: whether a settings read of the current one returned no value.
\* A frame that ended keeps how it ended, the ids of its due articles and its
\* ensure and publishPatch counts.
IdleFrame == [pc |-> "idle", exit |-> "none", drafts |-> <<>>, due |-> <<>>, idx |-> 0,
              article |-> NoArticle,
              resOk |-> FALSE, airtableId |-> 0, cycleNow |-> 0, patchAt |-> NoDate,
              dueIds |-> <<>>, calls |-> NoCalls, results |-> <<>>,
              mirrorResult |-> "none", unset |-> FALSE]

\* Enter op in the frame's ledger (the places where scheduler.ts calls out or logs).
Log(f, op) ==
    IF op \in CallOps THEN [f EXCEPT !.calls[op][f.idx] = @ + 1]
    ELSE IF op \in MirrorResults THEN [f EXCEPT !.mirrorResult = op]
    ELSE [f EXCEPT !.results[f.idx] = op]

\* The awaits of a cycle: a frame waits at one of them for the answer.
ActivePcs == {"awaitDrafts", "awaitPending", "awaitSettings", "awaitFetch", "awaitText",
              "awaitExternalIdPatch", "awaitPublishPatch", "awaitCrossPost"}

Active(i) == inv[i].pc \in ActivePcs

\* ---------------------------------------------------- the cycle's control flow
\* The finally block (scheduler.ts:155-159) ends the call; exit tells how the
\* try block was left: "return", "throw" or "end".
Finally(f, how) ==
    [IdleFrame EXCEPT !.pc = "done", !.exit = how, !.dueIds = f.dueIds,
                      !.calls = [op \in CallOps |->
                                    IF op \in {"ensure", "publishPatch"}
                                    THEN f.calls[op] ELSE <<>>]]

\* publishArticle up to its first await (scheduler.ts:96-101).
PublishStart(f) ==
    Log([f EXCEPT !.pc = "awaitPublishPatch",
                  !.patchAt = PublishedAtOrNow(f.article, now)], "publishPatch")

\* ensureArticleOnAirtable without the externalId check of scheduler.ts:28.
EnsureStartUnchecked(f) == [Log(f, "ensure") EXCEPT !.pc = "awaitSettings"]

\* ensureArticleOnAirtable with the test of scheduler.ts:28 negated.
EnsureStartNegated(f) ==
    LET g == Log(f, "ensure")
    IN  IF g.article.externalId = 0
        THEN PublishStart(Log(g, "present"))
        ELSE [g EXCEPT !.pc = "awaitSettings"]

\* ensureArticleOnAirtable up to its first await (scheduler.ts:26-31).
EnsureStart(f) ==
    LET g == Log(f, "ensure")
    IN  IF g.article.externalId # 0
        THEN PublishStart(Log(g, "present"))
        ELSE [g EXCEPT !.pc = "awaitSettings"]

\* The next iteration of `for (const article of due)` (scheduler.ts:144).
NextArticle(f) ==
    IF f.idx < Len(f.due)
    THEN EnsureStart([f EXCEPT !.idx = f.idx + 1, !.article = f.due[f.idx + 1],
                               !.resOk = FALSE, !.airtableId = 0, !.patchAt = NoDate,
                               !.mirrorResult = "none", !.unset = FALSE])
    ELSE Finally(f, "end")

\* A loop body that publishes only what is on the mirror.
EnsureReturnMirroredOnly(f) ==
    IF f.mirrorResult \in {"present", "externalIdSet"} THEN PublishStart(f) ELSE NextArticle(f)

\* ensureArticleOnAirtable returns `article` (scheduler.ts:37,69,76,91) or
\* `updated` (scheduler.ts:86) and the loop body goes on with
\* publishArticle(ensured) (scheduler.ts:147-148).
EnsureReturn(f) == PublishStart(f)

\* The cycle-level catch (scheduler.ts:153-155).
CycleCatch(f) == Finally(f, "throw")

\* A loop without the per-article try: the exception reaches the cycle-level catch.
ArticleCatchMissing(f) == CycleCatch(f)

\* The per-article catch (scheduler.ts:149-151): log and go on with the loop.
ArticleCatch(f) == NextArticle(f)

\* The flag cleared at the end of the try block only, not in a finally.
ReleasedAtEndOnly(how) == how # "end"

\* The flag after the finally block ran (scheduler.ts:156), however the try was left.
ReleasedFlag(how) == FALSE

\* Store the frame of invocation i; a frame that reached "done" ran the finally.
Resume(i, f) ==
    /\ inv' = [inv EXCEPT ![i] = f]
    /\ IF f.pc = "done"
       THEN /\ isRunning' = ReleasedFlag(f.exit)
            /\ completions' = completions + 1
       ELSE UNCHANGED <<isRunning, completions>>

\* ------------------------------------------------------------------- timers
\* A guard that lets every invocation in.
GuardOpen(running) == FALSE

\* A guard with the test negated.
GuardNegated(running) == ~running

\* `if (isRunning) return;` (scheduler.ts:124).
Guard(running) == running

\* A guard placed inside the try: the finally block clears the flag of the
\* cycle that is running.
FlagClearedBySkip(running) == FALSE

\* The flag after an invocation returned at the guard (scheduler.ts:124: the
\* return is outside the try, the finally block does not run).
FlagAfterSkip(running) == running

\* The frames no running call occupies.
FreeInvocations == {i \in Invocations : ~Active(i)}

\* One call of checkAndPublishDueArticles up to its first await (scheduler.ts:123-129).
checkAndPublishDueArticles ==
    IF Guard(isRunning)
    THEN /\ skips < MaxSkips
         /\ skips' = skips + 1
         /\ isRunning' = FlagAfterSkip(isRunning)
         /\ UNCHANGED <<articles, now, inv, mirror, posts, entries, completions,
                        failedPublish>>
    ELSE /\ entries < MaxCycles
         /\ FreeInvocations # {}
         /\ LET i == CHOOSE k \in FreeInvocations : \A m \in FreeInvocations : k <= m
            IN  inv' = [inv EXCEPT ![i] = [IdleFrame EXCEPT !.pc = "awaitDrafts"]]
         /\ isRunning' = TRUE
         /\ entries' = entries + 1
         /\ UNCHANGED <<articles, now, mirror, posts, completions, skips, failedPublish>>

\* The handle setInterval returns: one that no active timer has.
FreshHandle == CHOOSE h \in 1..(MaxPending + 1) : h \notin activeIntervals

\* A start without the test of scheduler.ts:163.
NeverStarted(handle) == FALSE

\* `if (intervalHandle) return;` (scheduler.ts:163).
AlreadyStarted(handle) == handle # 0

\* scheduler.ts:162-170
startPublishScheduler ==
    /\ ~AlreadyStarted(intervalHandle)
    /\ pendingTimeouts < MaxPending
    /\ pendingTimeouts' = pendingTimeouts + 1
    /\ intervalHandle' = FreshHandle
    /\ activeIntervals' = activeIntervals \cup {FreshHandle}
    /\ UNCHANGED <<articles, isRunning, now, inv, mirror, posts, entries, completions,
                   skips, failedPublish>>

\* A second start while a handle exists (scheduler.ts:163).
startAgain ==
    /\ AlreadyStarted(intervalHandle)
    /\ UNCHANGED vars

\* scheduler.ts:172-177
stopPublishScheduler ==
    /\ intervalHandle # 0
    /\ activeIntervals' = activeIntervals \ {intervalHandle}
    /\ intervalHandle' = 0
    /\ UNCHANGED <<articles, isRunning, pendingTimeouts, now, inv, mirror, posts,
                   entries, completions, skips, failedPublish>>

\* The callback of setTimeout(…, 5000) (scheduler.ts:166).
InitialRun ==
    /\ pendingTimeouts > 0
    /\ pendingTimeouts' = pendingTimeouts - 1
    /\ checkAndPublishDueArticles
    /\ UNCHANGED <<intervalHandle, activeIntervals>>

\* The callback of setInterval (scheduler.ts:167-169).
IntervalTick ==
    /\ activeIntervals # {}
    /\ checkAndPublishDueArticles
    /\ UNCHANGED <<intervalHandle, activeIntervals, pendingTimeouts>>

\* Wall-clock time passes.
Advance ==
    /\ now < MaxTime
    /\ now' = now + 1
    /\ UNCHANGED <<articles, isRunning, intervalHandle, activeIntervals, pendingTimeouts,
                   inv, mirror, posts, entries, completions, skips, failedPublish>>

\* ------------------------------------------------------------------ storage
\* storage.updateArticle(id, patch) when it succeeds: the row with the patch merged.
Patched(row, patch) ==
    [k \in DOMAIN row |-> IF k \in DOMAIN patch THEN patch[k] ELSE row[k]]

\* scheduler.ts:79-82
ExternalIdPatch(f) == [externalId |-> f.airtableId, source |-> "airtable"]

\* A publish patch that leaves the status out.
PublishPatchNoStatus(f) == [finished |-> TRUE, publishedAt |-> f.patchAt]

\* scheduler.ts:97-101
PublishPatch(f) == [status |-> "published", finished |-> TRUE, publishedAt |-> f.patchAt]

\* --------------------------------------------------------- steps of a cycle
\* The statuses the cycle asks storage for (scheduler.ts:129 and :130).
FirstQueryStatus == "draft"

\* A second query for the wrong status.
SecondQueryPublished == "published"

SecondQueryStatus == "pending"

\* `await storage.getArticlesByStatus("draft")` answers (scheduler.ts:129).
DraftsAnswer(i) ==
    /\ inv[i].pc = "awaitDrafts"
    /\ \/ Resume(i, [inv[i] EXCEPT !.pc = "awaitPending",
                                   !.drafts = getArticlesByStatus(FirstQueryStatus)])
       \/ Resume(i, CycleCatch(inv[i]))
    /\ UNCHANGED <<articles, intervalHandle, activeIntervals, pendingTimeouts, now,
                   mirror, posts, entries, skips, failedPublish>>

\* A candidate list with the pending articles first.
CandidatesPendingFirst(drafts, pending) == pending \o drafts

\* `[...drafts, ...pending]` (scheduler.ts:131).
Candidates(drafts, pending) == drafts \o pending

\* scheduler.ts:130-144, after `await storage.getArticlesByStatus("pending")`.
AfterQueries(f, pending) ==
    LET candidates == Candidates(f.drafts, pending)
        due == FilterDue(candidates, now)
    IN  IF Len(candidates) = 0 THEN Finally(f, "return")
        ELSE IF Len(due) = 0 THEN Finally(f, "return")
        ELSE NextArticle([f EXCEPT !.drafts = <<>>, !.due = due, !.idx = 0,
                                   !.cycleNow = now,
                                   !.dueIds = [j \in 1..Len(due) |-> due[j].id],
                                   !.calls = [op \in CallOps |-> [j \in 1..Len(due) |-> 0]],
                                   !.results = [j \in 1..Len(due) |-> "none"]])

PendingAnswer(i) ==
    /\ inv[i].pc = "awaitPending"
    /\ \/ Resume(i, AfterQueries(inv[i], getArticlesByStatus(SecondQueryStatus)))
       \/ Resume(i, CycleCatch(inv[i]))
    /\ UNCHANGED <<articles, intervalHandle, activeIntervals, pendingTimeouts, now,
                   mirror, posts, entries, skips, failedPublish>>

\* ensureArticleOnAirtable without its try: the exception leaves the loop body.
EnsureCatchMissing(f) == ArticleCatch(Log(f, "mirrorThrew"))

\* The catch of ensureArticleOnAirtable (scheduler.ts:88-91).
EnsureCatch(f) == EnsureReturn(Log(f, "mirrorThrew"))

\* What the reads of scheduler.ts:31-33 returned: whether one of the three
\* settings is null or has an empty value.
Unset(apiKey, baseId, tableName) ==
    \E setting \in {apiKey, baseId, tableName} : setting \in {"missing", "empty"}

\* A configuration test that forgets the table name.
AfterSettingsTwoKeys(f, apiKey, baseId, tableName) ==
    IF apiKey # "set" \/ baseId # "set"
    THEN EnsureReturn(Log(f, "mirrorUnconfigured"))
    ELSE Log([f EXCEPT !.pc = "awaitFetch"], "create")

\* scheduler.ts:35-64, once the three settings are read.
AfterSettings(f, apiKey, baseId, tableName) ==
    IF apiKey # "set" \/ baseId # "set" \/ tableName # "set"
    THEN EnsureReturn(Log(f, "mirrorUnconfigured"))
    ELSE Log([f EXCEPT !.pc = "awaitFetch"], "create")

\* The three `await storage.getIntegrationSettingByKey` in a row
\* (scheduler.ts:31-33): each answers a setting, or one of them throws.
SettingsAnswer(i) ==
    /\ inv[i].pc = "awaitSettings"
    /\ \/ \E apiKey \in SettingValues, baseId \in SettingValues, tableName \in SettingValues :
             Resume(i, AfterSettings(
                          [inv[i] EXCEPT !.unset = Unset(apiKey, baseId, tableName)],
                          apiKey, baseId, tableName))
       \/ Resume(i, EnsureCatch(inv[i]))
    /\ UNCHANGED <<articles, intervalHandle, activeIntervals, pendingTimeouts, now,
                   mirror, posts, entries, skips, failedPublish>>

\* The id Airtable gives the next record it creates for article a: ids are
\* unique over the table.
NextRecordId(a) == a + NumArticles * mirror[a]

\* `await fetch(url, …)` answers (scheduler.ts:57-64): the API created a record
\* and answers ok with its id, answers ok without a record, answers an error
\* status, or the request throws.
FetchAnswer(i) ==
    /\ inv[i].pc = "awaitFetch"
    /\ \/ /\ mirror' = [mirror EXCEPT ![inv[i].article.id] = @ + 1]
          /\ Resume(i, [inv[i] EXCEPT !.pc = "awaitText", !.resOk = TRUE,
                                      !.airtableId = NextRecordId(inv[i].article.id)])
       \/ /\ \E ok \in BOOLEAN :
                Resume(i, [inv[i] EXCEPT !.pc = "awaitText", !.resOk = ok])
          /\ UNCHANGED mirror
       \/ /\ Resume(i, EnsureCatch(inv[i]))
          /\ UNCHANGED mirror
    /\ UNCHANGED <<articles, intervalHandle, activeIntervals, pendingTimeouts, now,
                   posts, entries, skips, failedPublish>>

\* A push that is sent again, once, after an error status.
AfterTextRetries(f) ==
    IF ~f.resOk
    THEN IF f.calls["create"][f.idx] < 2
         THEN Log([f EXCEPT !.pc = "awaitFetch"], "create")
         ELSE EnsureReturn(Log(f, "mirrorFailed"))
    ELSE IF f.airtableId = 0 THEN EnsureReturn(Log(f, "mirrorNoId"))
    ELSE Log([f EXCEPT !.pc = "awaitExternalIdPatch"], "externalIdPatch")

\* scheduler.ts:67-82, once the response body is read.
AfterText(f) ==
    IF ~f.resOk THEN EnsureReturn(Log(f, "mirrorFailed"))
    ELSE IF f.airtableId = 0 THEN EnsureReturn(Log(f, "mirrorNoId"))
    ELSE Log([f EXCEPT !.pc = "awaitExternalIdPatch"], "externalIdPatch")

\* `await res.text()` answers, or it or JSON.parse throws (scheduler.ts:66-72).
TextAnswer(i) ==
    /\ inv[i].pc = "awaitText"
    /\ \/ Resume(i, AfterText(inv[i]))
       \/ Resume(i, EnsureCatch(inv[i]))
    /\ UNCHANGED <<articles, intervalHandle, activeIntervals, pendingTimeouts, now,
                   mirror, posts, entries, skips, failedPublish>>

\* `await storage.updateArticle(article.id, {externalId, source})` answers
\* (scheduler.ts:79-91): the updated row, null, or it throws.
ExternalIdPatchAnswer(i) ==
    /\ inv[i].pc = "awaitExternalIdPatch"
    /\ LET f == inv[i]
           id == f.article.id
           updated == Patched(articles[id], ExternalIdPatch(f))
       IN  \/ /\ articles' = [articles EXCEPT ![id] = updated]
              /\ Resume(i, EnsureReturn(Log([f EXCEPT !.article = updated], "externalIdSet")))
           \/ /\ Resume(i, EnsureReturn(Log(f, "externalIdNull")))
              /\ UNCHANGED articles
           \/ /\ Resume(i, EnsureCatch(f))
              /\ UNCHANGED articles
    /\ UNCHANGED <<intervalHandle, activeIntervals, pendingTimeouts, now,
                   mirror, posts, entries, skips, failedPublish>>

\* scheduler.ts:103-112 when the publish patch returned a row: the cross-post call.
CrossPostStart(f) == Log([f EXCEPT !.pc = "awaitCrossPost"], "crossPost")

\* publishArticle without the `return` of scheduler.ts:105.
PublishFailedNoReturn(f) == CrossPostStart(Log(f, "publishNull"))

\* scheduler.ts:103-106 when the publish patch returned null: publishArticle returns.
PublishFailed(f) == NextArticle(Log(f, "publishNull"))

\* The Instagram adapter receives the call that publishArticle(id) of
\* invocation i issued in this step, if it issued one.
Received(i, id) ==
    posts' = IF inv'[i].pc = "awaitCrossPost" /\ inv'[i].article.id = id
             THEN [posts EXCEPT ![id] = @ + 1]
             ELSE posts

\* `await storage.updateArticle(article.id, {status, finished, publishedAt})`
\* answers (scheduler.ts:97-112): the updated row, null, or it throws.
PublishPatchAnswer(i) ==
    /\ inv[i].pc = "awaitPublishPatch"
    /\ LET f == inv[i]
           id == f.article.id
           updated == Patched(articles[id], PublishPatch(f))
       IN  \/ /\ articles' = [articles EXCEPT ![id] = updated]
              /\ Resume(i, CrossPostStart(Log([f EXCEPT !.article = updated], "published")))
              /\ Received(i, id)
              /\ failedPublish' = failedPublish \ {id}
           \/ /\ Resume(i, PublishFailed(f))
              /\ Received(i, id)
              /\ failedPublish' = failedPublish \cup {id}
              /\ UNCHANGED articles
           \/ /\ Resume(i, ArticleCatch(Log(f, "publishThrew")))
              /\ Received(i, id)
              /\ failedPublish' = failedPublish \cup {id}
              /\ UNCHANGED articles
    /\ UNCHANGED <<intervalHandle, activeIntervals, pendingTimeouts, now,
                   mirror, entries, skips>>

\* `await postArticleToInstagram(updated)` answers (scheduler.ts:111-121):
\* success, {success: false}, or it throws; publishArticle returns in each case.
CrossPostAnswer(i) ==
    /\ inv[i].pc = "awaitCrossPost"
    /\ \E r \in {"crossPostOk", "crossPostFailed", "crossPostThrew"} :
          Resume(i, NextArticle(Log(inv[i], r)))
    /\ UNCHANGED <<articles, intervalHandle, activeIntervals, pendingTimeouts, now,
                   mirror, posts, entries, skips, failedPublish>>

\* ------------------------------------------------------------ specification
\* The rows storage can hold at boot: a candidate status and any pair of dates.
InitialRows == [status : {"draft", "pending"}, Scheduled : DateValues,
                publishedAt : DateValues]

\* A row that never resolves to an instant.
UndatedRow == [status |-> "pending", Scheduled |-> NoDate, publishedAt |-> NoDate]

\* Storage at boot, first family: article 1 is any row, the others are undated.
DateCases ==
    {r \in [ArticleIds -> InitialRows] : \A a \in ArticleIds \ {1} : r[a] = UndatedRow}

\* Storage at boot, second family: a batch in which every article is scheduled
\* at some instant and never was published; article 1 is pending, the others
\* are drafts (so the candidate list does not follow the ids).
BatchCases ==
    {r \in [ArticleIds -> InitialRows] :
        \A a \in ArticleIds :
            /\ r[a].Scheduled \in Instants
            /\ r[a].publishedAt = NoDate
            /\ r[a].status = IF a = 1 THEN "pending" ELSE "draft"}

InitialArticles == DateCases \cup BatchCases

Init ==
    /\ \E init \in InitialArticles :
          articles = [a \in ArticleIds |->
                        [id |-> a, status |-> init[a].status,
                         Scheduled |-> init[a].Scheduled,
                         publishedAt |-> init[a].publishedAt,
                         externalId |-> 0, source |-> "local", finished |-> FALSE]]
    /\ isRunning = FALSE
    /\ intervalHandle = 0
    /\ activeIntervals = {}
    /\ pendingTimeouts = 0
    /\ now = 0
    /\ inv = [i \in Invocations |-> IdleFrame]
    /\ mirror = [a \in ArticleIds |-> 0]
    /\ posts = [a \in ArticleIds |-> 0]
    /\ entries = 0
    /\ completions = 0
    /\ skips = 0
    /\ failedPublish = {}

Step(i) ==
    \/ DraftsAnswer(i)
    \/ PendingAnswer(i)
    \/ SettingsAnswer(i)
    \/ FetchAnswer(i)
    \/ TextAnswer(i)
    \/ ExternalIdPatchAnswer(i)
    \/ PublishPatchAnswer(i)
    \/ CrossPostAnswer(i)

Next ==
    \/ startPublishScheduler
    \/ startAgain
    \/ stopPublishScheduler
    \/ InitialRun
    \/ IntervalTick
    \/ Advance
    \/ \E i \in Invocations : Step(i)

Spec == Init /\ [][Next]_vars

\* Every storage, settings, Airtable and Instagram call answers: it returns or
\* it throws.
FairSpec == Spec /\ WF_vars(\E i \in Invocations : Step(i))

\* ------------------------------------------------------------------ claims
ActiveCycles == {i \in Invocations : Active(i)}

CycleVars == <<articles, inv, mirror, posts, entries, completions>>

\* C1: in every reachable state at most one invocation of
\* checkAndPublishDueArticles is between `isRunning = true` and the finally
\* block, whatever the timers, start/stop calls and slow answers do.
C1_AtMostOneCycle == Cardinality(ActiveCycles) <= 1

\* A cycle is under way and a timer fired during it.
C1_Witness == \E i \in Invocations : Active(i) /\ inv[i].pc # "awaitDrafts" /\ skips > 0

\* C2: an invocation that finds isRunning set changes nothing (no query, no
\* update, no mirror or cross-post call) and leaves isRunning true; entries
\* never exceed completions by more than one.
C2_SkipIsNoOp ==
    /\ [](entries - completions \in {0, 1})
    /\ [][skips' # skips => /\ isRunning /\ isRunning'
                            /\ UNCHANGED CycleVars]_vars

\* A tick was refused while the cycle it met is still running.
C2_Witness == skips = 1 /\ isRunning /\ entries = completions + 1

\* C3: when every call answers, every cycle that set isRunning reaches a state
\* with isRunning false, whichever way it ends.
C3_GuardReleased == isRunning ~> ~isRunning

\* A cycle that ended through the cycle-level catch released the flag.
C3_Witness ==
    \E i \in Invocations : inv[i].pc = "done" /\ inv[i].exit = "throw" /\ ~isRunning

\* The results that tell that the publish patch of a due article succeeded.
PatchedResults == {"published", "crossPostOk", "crossPostFailed", "crossPostThrew"}

DueIndices(f) == 1..Len(f.dueIds)

Processing(i) == Active(i) /\ Len(inv[i].dueIds) > 0

Ended(i) == inv[i].pc = "done" /\ Len(inv[i].dueIds) > 0

\* C4: when the publish patch (or another step) of a due article throws, the
\* articles after it are still processed in that cycle: ensure and publish are
\* invoked for each, and each is published when its own patch succeeds.
C4_FailureIsolated ==
    \A i \in Invocations :
        LET f == inv[i]
        IN  /\ Processing(i) =>
                \A j \in DueIndices(f) :
                    /\ j < f.idx => f.calls["ensure"][j] >= 1 /\ f.calls["publishPatch"][j] >= 1
                    /\ f.results[j] \in PatchedResults =>
                           articles[f.dueIds[j]].status = "published"
            /\ Ended(i) =>
                \A j \in DueIndices(f) :
                    f.calls["ensure"][j] >= 1 /\ f.calls["publishPatch"][j] >= 1

\* The publish patch of the first due article threw and the second one is published.
C4_Witness ==
    \E i \in Invocations :
        /\ Processing(i)
        /\ inv[i].idx = 2
        /\ inv[i].results[1] = "publishThrew"
        /\ inv[i].results[2] = "published"
        /\ articles[inv[i].dueIds[1]].status # "published"
        /\ articles[inv[i].dueIds[2]].status = "published"

\* C5: an article that a successful publish patch made published is not
\* selected by a later cycle: a cycle works only on articles that were not
\* published before it published them itself.
C5_NoReselection ==
    \A i \in Invocations :
        Processing(i) =>
            \A j \in DueIndices(inv[i]) :
                articles[inv[i].dueIds[j]].status = "published" =>
                    inv[i].results[j] \in PatchedResults

\* The second cycle works on a due article while the article that the first
\* cycle published is not among its due articles.
C5_Witness ==
    \E i \in Invocations, a \in ArticleIds :
        /\ Processing(i)
        /\ entries = 2
        /\ articles[a].status = "published"
        /\ posts[a] = 1
        /\ \A j \in DueIndices(inv[i]) : inv[i].dueIds[j] # a

\* C6: in a cycle that is not skipped, each due article gets exactly one
\* publish patch, whatever the mirror push did: none before its turn, one from
\* the moment publishArticle is called, one when the cycle has ended.
C6_OnePublishAttempt ==
    \A i \in Invocations :
        LET f == inv[i]
            expected(j) ==
                IF j < f.idx THEN 1
                ELSE IF j = f.idx /\ f.pc \in {"awaitPublishPatch", "awaitCrossPost"} THEN 1
                ELSE 0
        IN  /\ Processing(i) =>
                \A j \in DueIndices(f) : f.calls["publishPatch"][j] = expected(j)
            /\ Ended(i) =>
                \A j \in DueIndices(f) : f.calls["publishPatch"][j] = 1

\* The mirror push of the first due article was tried and left it without
\* externalId; its publish patch was issued once and the loop went on.
C6_Witness ==
    \E i \in Invocations :
        /\ Processing(i)
        /\ inv[i].idx = 2
        /\ inv[i].calls["create"][1] = 1
        /\ articles[inv[i].dueIds[1]].externalId = 0
        /\ inv[i].calls["publishPatch"][1] = 1

\* The instant the claim C7 resolves for a row: Scheduled when it parses,
\* otherwise publishedAt when it parses, otherwise none (-1).
C7_Instant(row) ==
    IF row.Scheduled >= 0 THEN row.Scheduled
    ELSE IF row.publishedAt >= 0 THEN row.publishedAt
    ELSE -1

C7_Untouched(a) ==
    /\ articles[a].status \in {"draft", "pending"}
    /\ articles[a].externalId = 0
    /\ ~articles[a].finished
    /\ mirror[a] = 0
    /\ posts[a] = 0

\* C7: a candidate whose resolved instant does not exist or is later than the
\* cycle's snapshot of now is not worked on by that cycle, and an article
\* that has not been due so far is as it was: no update, no mirror record, no
\* cross-post.
C7_NotDueUntouched ==
    /\ \A i \in Invocations :
          Active(i) =>
              \A j \in 1..Len(inv[i].due) :
                  /\ C7_Instant(inv[i].due[j]) >= 0
                  /\ C7_Instant(inv[i].due[j]) <= inv[i].cycleNow
    /\ \A a \in ArticleIds :
          (C7_Instant(articles[a]) < 0 \/ C7_Instant(articles[a]) > now) => C7_Untouched(a)

\* A cycle works on a due article while another candidate, not due at the
\* cycle's snapshot and due by now, is untouched.
C7_Witness ==
    \E i \in Invocations, a \in ArticleIds :
        /\ Processing(i)
        /\ \A j \in DueIndices(inv[i]) : inv[i].dueIds[j] # a
        /\ C7_Instant(articles[a]) > inv[i].cycleNow
        /\ C7_Instant(articles[a]) <= now
        /\ C7_Untouched(a)

MirrorFailures == {"mirrorUnconfigured", "mirrorFailed", "mirrorNoId", "mirrorThrew",
                   "externalIdNull"}

\* C8: a published article stays published whatever the cross-post answers,
\* and a mirror push that fails, is unconfigured or throws does not keep the
\* publish patch of that article from being issued in the same cycle.
C8_SyncNeverBlocks ==
    /\ [](\A i \in Invocations :
            LET f == inv[i]
            IN  /\ (Processing(i) /\ f.mirrorResult \in MirrorFailures) =>
                       f.calls["publishPatch"][f.idx] = 1
                /\ (Processing(i) \/ Ended(i)) =>
                       \A j \in DueIndices(f) :
                           ((j < f.idx \/ f.pc = "done")
                              /\ articles[f.dueIds[j]].externalId = 0) =>
                               f.calls["publishPatch"][j] = 1)
    /\ [][\A a \in ArticleIds :
             articles[a].status = "published" => articles'[a].status = "published"]_vars

\* The cross-post of the first due article failed or threw and the article is
\* published; the mirror push of the second one failed and its publish patch
\* is under way.
C8_Witness ==
    \E i \in Invocations :
        /\ Processing(i)
        /\ inv[i].idx = 2
        /\ inv[i].results[1] \in {"crossPostFailed", "crossPostThrew"}
        /\ articles[inv[i].dueIds[1]].status = "published"
        /\ inv[i].mirrorResult \in {"mirrorUnconfigured", "mirrorFailed", "mirrorThrew"}
        /\ inv[i].pc = "awaitPublishPatch"

\* C9: postArticleToInstagram is called for an article at most once in a cycle
\* and only after its publish patch returned the updated row; after a publish
\* patch that returned null or threw it is not called.
C9_CrossPostAfterPublish ==
    \A i \in Invocations :
        Processing(i) =>
            \A j \in DueIndices(inv[i]) :
                LET f == inv[i]
                IN  /\ f.calls["crossPost"][j] <= 1
                    /\ f.calls["crossPost"][j] = 1 =>
                           /\ f.results[j] \in PatchedResults
                           /\ articles[f.dueIds[j]].status = "published"
                    /\ f.results[j] \in {"publishNull", "publishThrew"} =>
                           f.calls["crossPost"][j] = 0

\* The publish patch of the first due article returned null and it was not
\* cross-posted; the second one is cross-posted.
C9_Witness ==
    \E i \in Invocations :
        /\ Processing(i)
        /\ inv[i].idx = 2
        /\ inv[i].results[1] = "publishNull"
        /\ inv[i].calls["crossPost"][1] = 0
        /\ inv[i].calls["crossPost"][2] = 1

\* C10: no step changes an externalId that is set, to another value or to empty.
C10_ExternalIdKept ==
    [][\A a \in ArticleIds :
          articles[a].externalId # 0 => articles'[a].externalId = articles[a].externalId]_vars

\* In the second cycle ensureArticleOnAirtable met an article whose externalId
\* the first cycle had set, and the publish patch is under way.
C10_Witness ==
    \E i \in Invocations :
        /\ Processing(i)
        /\ entries = 2
        /\ inv[i].article.externalId # 0
        /\ articles[inv[i].article.id].externalId = inv[i].article.externalId
        /\ inv[i].mirrorResult = "present"
        /\ inv[i].pc = "awaitPublishPatch"

\* The awaits of ensureArticleOnAirtable: the settings reads, the create call
\* and its body, the storage update.
MirrorPcs == {"awaitSettings", "awaitFetch", "awaitText", "awaitExternalIdPatch"}

\* C11: for an article selected with externalId set, ensureArticleOnAirtable
\* reads no settings, makes no create call, issues no storage update and
\* returns the article it was given; the settings reads and the create call
\* happen only for an article without externalId.
C11_PresentIsNoOp ==
    \A i \in Invocations :
        Processing(i) =>
            LET f == inv[i]
                given == f.due[f.idx]
            IN  /\ f.pc \in MirrorPcs => given.externalId = 0
                /\ given.externalId # 0 =>
                       /\ f.mirrorResult = "present"
                       /\ f.calls["create"][f.idx] = 0
                       /\ f.calls["externalIdPatch"][f.idx] = 0
                       /\ articles[given.id].externalId = given.externalId
                       /\ f.pc = "awaitPublishPatch" => f.article = given
                /\ f.mirrorResult = "present" => given.externalId # 0

\* The first cycle created the record of an article and its publish patch
\* failed; the second cycle called ensureArticleOnAirtable on it again: no
\* second record, no call, and the publish patch is under way.
C11_Witness ==
    \E i \in Invocations :
        /\ Processing(i)
        /\ entries = 2
        /\ inv[i].pc = "awaitPublishPatch"
        /\ inv[i].due[inv[i].idx].externalId # 0
        /\ inv[i].calls["ensure"][inv[i].idx] = 1
        /\ inv[i].calls["create"][inv[i].idx] = 0
        /\ mirror[inv[i].article.id] = 1

\* C12: when one of the three settings reads returned null or an empty value,
\* ensureArticleOnAirtable makes no create call, issues no storage update and
\* returns the article it was given, unchanged in storage; a create call is
\* made only when the three settings have a value.
C12_UnconfiguredIsNoOp ==
    \A i \in Invocations :
        Processing(i) =>
            LET f == inv[i]
                given == f.due[f.idx]
            IN  /\ f.pc \in {"awaitFetch", "awaitText", "awaitExternalIdPatch"} => ~f.unset
                /\ f.unset =>
                       /\ f.mirrorResult = "mirrorUnconfigured"
                       /\ f.calls["create"][f.idx] = 0
                       /\ f.calls["externalIdPatch"][f.idx] = 0
                       /\ f.pc = "awaitPublishPatch" =>
                              f.article = given /\ articles[given.id] = given

\* A settings read returned no value; ensureArticleOnAirtable returned the
\* article, no record exists and the publish patch is under way.
C12_Witness ==
    \E i \in Invocations :
        /\ Processing(i)
        /\ inv[i].unset
        /\ inv[i].pc = "awaitPublishPatch"
        /\ inv[i].article = inv[i].due[inv[i].idx]
        /\ inv[i].calls["create"][inv[i].idx] = 0
        /\ mirror[inv[i].article.id] = 0

\* C13: while a timer handle exists no step (a call of startPublishScheduler
\* included) schedules another initial run or another recurring timer or
\* replaces the handle, and the recurring timers that are active are exactly
\* the one intervalHandle names: at most one.
C13_StartIdempotent ==
    /\ [](/\ Cardinality(activeIntervals) <= 1
          /\ activeIntervals = IF intervalHandle = 0 THEN {} ELSE {intervalHandle})
    /\ [][intervalHandle # 0 =>
             /\ intervalHandle' \in {0, intervalHandle}
             /\ activeIntervals' \subseteq activeIntervals
             /\ pendingTimeouts' <= pendingTimeouts]_vars

\* The scheduler is started, its initial run has fired and a cycle is under
\* way: a call of startPublishScheduler now is the one that returns at once.
C13_Witness ==
    /\ intervalHandle # 0
    /\ activeIntervals = {intervalHandle}
    /\ pendingTimeouts = 0
    /\ entries = 1
    /\ isRunning
    /\ ENABLED startAgain

\* A mirror push that failed transiently: an error status or an exception.
TransientFailures == {"mirrorFailed", "mirrorThrew"}

CandidateStatuses == {"draft", "pending"}

\* C14 as stated: after a transient failure of its mirror push the article
\* keeps its status and remains a candidate.
C14_LeftForRetry ==
    \A i \in Invocations :
        (Processing(i) /\ inv[i].mirrorResult \in TransientFailures) =>
            articles[inv[i].article.id].status \in CandidateStatuses

\* C14, amended: a transient failure of the mirror push leaves the article as
\* it was selected (no storage update, no second create call in the cycle, the
\* same article returned) and the publish patch is issued in the same cycle;
\* a mirror push is under way only for an article that is still a candidate
\* without externalId, so it is tried again in a later cycle only when the
\* publish patch did not succeed.
C14_FailedPushKeepsArticle ==
    \A i \in Invocations :
        Processing(i) =>
            LET f == inv[i]
                given == f.due[f.idx]
            IN  /\ \A j \in DueIndices(f) : f.calls["create"][j] <= 1
                /\ f.mirrorResult \in TransientFailures =>
                       /\ f.calls["publishPatch"][f.idx] = 1
                       /\ articles[given.id].externalId = 0
                       /\ articles[given.id].source = given.source
                       /\ f.pc = "awaitPublishPatch" =>
                              f.article = given /\ articles[given.id] = given
                /\ f.pc \in MirrorPcs =>
                       /\ articles[given.id].status \in CandidateStatuses
                       /\ articles[given.id].externalId = 0

\* The create call of a due article answered an error status or threw; the
\* article is as it was selected and its publish patch is under way.
C14_Witness ==
    \E i \in Invocations :
        /\ Processing(i)
        /\ inv[i].mirrorResult \in TransientFailures
        /\ inv[i].calls["create"][inv[i].idx] = 1
        /\ inv[i].pc = "awaitPublishPatch"
        /\ articles[inv[i].article.id] = inv[i].due[inv[i].idx]

\* The publish patches a frame has issued for its j-th due article when the
\* loop is at f.idx.
IssuedPatches(f, j) ==
    IF f.pc = "done" \/ j < f.idx THEN 1
    ELSE IF j = f.idx /\ f.pc \in {"awaitPublishPatch", "awaitCrossPost"} THEN 1
    ELSE 0

FinalResults == {"publishNull", "publishThrew", "crossPostOk", "crossPostFailed",
                 "crossPostThrew"}

\* The awaits of calls that leave the process: the create call, its body, the
\* cross-post.
ExternalPcs == {"awaitFetch", "awaitText", "awaitCrossPost"}

\* C16: the due list of a cycle has the drafts before the pending articles,
\* each group in storage order; the work on the j-th article is over before a
\* call for the next one is made, ensureArticleOnAirtable has returned before
\* the publish patch is issued, and at most one external call is in flight.
C16_SequentialInOrder ==
    /\ Cardinality({i \in Invocations : inv[i].pc \in ExternalPcs}) <= 1
    /\ \A i \in Invocations :
          Processing(i) =>
              LET f == inv[i]
              IN  /\ \A j, k \in 1..Len(f.due) :
                        j < k =>
                            /\ f.due[j].status = "pending" => f.due[k].status = "pending"
                            /\ f.due[j].status = f.due[k].status => f.due[j].id < f.due[k].id
                  /\ \A j \in DueIndices(f) :
                        /\ j > f.idx =>
                               /\ \A op \in CallOps : f.calls[op][j] = 0
                               /\ f.results[j] = "none"
                        /\ j < f.idx =>
                               /\ f.calls["ensure"][j] = 1
                               /\ f.calls["publishPatch"][j] = 1
                               /\ f.results[j] \in FinalResults
                  /\ f.pc \in MirrorPcs =>
                        /\ f.mirrorResult = "none"
                        /\ f.calls["publishPatch"][f.idx] = 0
                  /\ f.pc \in {"awaitPublishPatch", "awaitCrossPost"} =>
                        /\ f.mirrorResult # "none"
                        /\ f.calls["ensure"][f.idx] = 1

\* A draft and a pending article are due; the draft, which has the higher id,
\* was worked on first and the create call of the pending one is in flight.
C16_Witness ==
    \E i \in Invocations :
        /\ Processing(i)
        /\ inv[i].idx = 2
        /\ inv[i].due[1].status = "draft"
        /\ inv[i].due[2].status = "pending"
        /\ inv[i].due[1].id > inv[i].due[2].id
        /\ inv[i].results[1] \in FinalResults
        /\ inv[i].pc = "awaitFetch"

\* C17: isRunning is set exactly while a cycle runs; while a recurring timer
\* is active its tick can fire, during a cycle (it is skipped) and after it:
\* with no cycle running the tick passes the guard and starts a cycle.
C17_SelfThrottling ==
    /\ isRunning <=> ActiveCycles # {}
    /\ (activeIntervals # {} /\ isRunning /\ skips < MaxSkips) =>
           ENABLED (IntervalTick /\ skips' = skips + 1)
    /\ (activeIntervals # {} /\ ~isRunning /\ entries < MaxCycles) =>
           ENABLED (IntervalTick /\ entries' = entries + 1 /\ isRunning')

\* A tick was skipped during the first cycle, that cycle has completed and the
\* timer is still active: its next tick starts the second cycle.
C17_Witness ==
    /\ skips = 1
    /\ entries = 1
    /\ completions = 1
    /\ ~isRunning
    /\ activeIntervals # {}
    /\ ENABLED (IntervalTick /\ entries' = 2)

\* C18 as stated: while no timer handle exists (the scheduler was stopped and
\* not started again, or never started) no timer starts a cycle, the initial
\* delayed run of an earlier start included.
C18_NoCycleAfterStop == [][intervalHandle = 0 => entries' = entries]_vars

\* C19 as stated: over all cycles and all answers of storage and of the
\* mirror, at most one record is created on the mirror for an article.
C19_CreateOnce == \A a \in ArticleIds : mirror[a] <= 1

\* C20: over all cycles postArticleToInstagram is called at most once for an
\* article: once, with the published article, when its publish patch has
\* succeeded, and not again in a later cycle whatever the call answered.
C20_CrossPostOnce ==
    /\ \A a \in ArticleIds :
          /\ posts[a] <= 1
          /\ posts[a] = 1 <=> articles[a].status = "published"
    /\ \A i \in Invocations :
          inv[i].pc = "awaitCrossPost" =>
              /\ inv[i].article.status = "published"
              /\ inv[i].article = articles[inv[i].article.id]
              /\ posts[inv[i].article.id] = 1

\* The first cycle published and cross-posted an article; the second cycle
\* does not work on it and is cross-posting another one.
C20_Witness ==
    \E i \in Invocations, a \in ArticleIds :
        /\ Processing(i)
        /\ entries = 2
        /\ inv[i].pc = "awaitCrossPost"
        /\ inv[i].article.id # a
        /\ \A j \in DueIndices(inv[i]) : inv[i].dueIds[j] # a
        /\ articles[a].status = "published"
        /\ posts[a] = 1

====
